---- MODULE Spec2Model ----
(***************************************************************************)
(* Model of backend/services/etf_analyzer.py (class ETFAnalyzer): the      *)
(* characteristic analysis of a historical series, the optimal grid        *)
(* parameter calculator, the grid parameter scorer and the suitability     *)
(* evaluator.                                                              *)
(*                                                                         *)
(* Numbers.  Python floats are modelled by exact fixed-point integers:     *)
(*   avg_amplitude, amplitude_std      unit 1e-3  (2.5 is 2500)            *)
(*   target_triggers                   unit 1e-1  (5.5 is 55)              *)
(*   base_range                        unit 1e-6                           *)
(*   min_range, max_range, price_range_ratio  unit 1e-7 (0.02 is 200000)   *)
(*   frequency_match_score             unit 1e-2                           *)
(*   volatility                        unit 1    (percent)                 *)
(*   avg_price, price_std              unit 1e-2                           *)
(*   avg_volume, volume_std            unit 1e4 shares (1,000,000 is 100)  *)
(*   liquidity_score, oscillation_score  unit 1e-3                         *)
(*   trend_slope                       unit 1e-2                           *)
(* Every product and quotient below is exact in these units, so a          *)
(* comparison differs from the float one only where the float operands     *)
(* are within rounding error of each other.                                *)
(*                                                                         *)
(* Python dicts are functions whose DOMAIN is the set of keys present.     *)
(* A raised exception is modelled at the try/except that catches it.       *)
(***************************************************************************)
EXTENDS Integers, Sequences, FiniteSets, TLC

VARIABLES
    pc,                 \* position of the caller in the pipeline
    historical_data,    \* the series handed to analyze_etf_characteristics
    analysis_result,    \* dict returned by analyze_etf_characteristics
    grid_params,        \* dict handed to evaluate_adaptability
    user_frequency,     \* frequency string handed to evaluate_adaptability
    verdict,            \* dict returned by evaluate_adaptability
    optimal_range,      \* local of _evaluate_grid_params_with_frequency_matching
    optimal_grid_count, \* local of _evaluate_grid_params_with_frequency_matching
    range_score,        \* local of _evaluate_grid_params_with_frequency_matching
    count_score,        \* local of _evaluate_grid_params_with_frequency_matching
    grid_evaluation     \* dict returned by _evaluate_grid_params_with_frequency_matching

vars == <<pc, historical_data, analysis_result, grid_params, user_frequency,
          verdict, optimal_range, optimal_grid_count, range_score, count_score,
          grid_evaluation>>

\* An empty dict; also the value of a variable not assigned yet.
EmptyDict == <<>>

\* dict.get(key, default)
Get(d, key, default) == IF key \in DOMAIN d THEN d[key] ELSE default

Max(a, b) == IF a >= b THEN a ELSE b
Min(a, b) == IF a <= b THEN a ELSE b
Abs(a) == IF a >= 0 THEN a ELSE 0 - a

(***************************************************************************)
(* Bounds of the model.                                                    *)
(***************************************************************************)
\* longest series analysed
MaxLen == 20
\* largest number of statistic groups whose computation raises on one series
MaxFaults == 1
\* amplitudes 0 .. MaxSmallAmplitude (unit 1e-3) are all tried by the grid
\* calculator, together with the coarser LargeAmplitudes
MaxSmallAmplitude == 12

(***************************************************************************)
(* Characteristic analyzer                                                 *)
(***************************************************************************)
\* minimum number of points of a series (len(historical_data) < 20)
MinDataPoints == 20

\* Statistic groups computed inline in analyze_etf_characteristics, in the
\* order of the code, and those computed by a helper with its own try/except.
InlineGroups == <<"price_stats", "volatility", "amplitude_stats", "volume_stats",
                  "date_range">>
HelperGroups == {"trend_slope", "oscillation_score", "liquidity_score",
                 "price_distribution"}
StatisticGroups == {InlineGroups[i] : i \in 1..Len(InlineGroups)} \cup HelperGroups

\* What numpy computes on the columns of a series of at least 20 points.  The
\* numerics of mean, std, polyfit and the percentiles are not modelled: their
\* results are taken from these sets.
SeriesStats ==
    { [avg_price |-> 100, price_std |-> ps,
       volatility |-> v,
       avg_amplitude |-> a, amplitude_std |-> (a * k) \div 10,
       avg_volume |-> av, volume_std |-> (av * c) \div 10,
       trend_slope |-> sl,
       skewness |-> sk,
       start_date |-> "2024-01-02", end_date |-> "2024-03-29"] :
         ps \in {1, 5}, v \in {14, 15, 40, 41}, a \in {0, 800, 1500, 2000, 2500},
         k \in {3, 8}, av \in {40, 50, 200}, c \in {4, 15},
         sl \in {-2, 2}, sk \in {0, 9} }

\* _determine_trend_direction
_determine_trend_direction(slope) ==
    IF slope > 1 THEN "uptrend"
    ELSE IF slope < -1 THEN "downtrend"
    ELSE "oscillating"

\* _calculate_trend_slope: np.polyfit, 0.0 when it raises
_calculate_trend_slope(st, raises) ==
    IF "trend_slope" \in raises THEN 0 ELSE st.trend_slope

\* Faulty variant of _calculate_oscillation_score: 1.0 when it raises.
_calculate_oscillation_score_default_one(st, raises) ==
    IF "oscillation_score" \in raises THEN 1000
    ELSE IF st.avg_amplitude = 0 \/ st.avg_price = 0 THEN 1000
    ELSE LET price_cv == (st.price_std * 1000) \div st.avg_price
             amplitude_cv == (st.amplitude_std * 1000) \div st.avg_amplitude
         IN  Min(1000, (price_cv * 10 + amplitude_cv) \div 2)

\* _calculate_oscillation_score: min(1.0, (price_cv * 10 + amplitude_cv) / 2),
\* 0.0 when the computation raises.  np.std/np.mean of an all-zero amplitude
\* column is nan (no exception), and min(1.0, nan) is 1.0.
_calculate_oscillation_score(st, raises) ==
    IF "oscillation_score" \in raises THEN 0
    ELSE IF st.avg_amplitude = 0 \/ st.avg_price = 0 THEN 1000
    ELSE LET price_cv == (st.price_std * 1000) \div st.avg_price
             amplitude_cv == (st.amplitude_std * 1000) \div st.avg_amplitude
         IN  Min(1000, (price_cv * 10 + amplitude_cv) \div 2)

\* _calculate_liquidity_score:
\* (1 - min(1.0, volume_cv)) * 0.5 + min(1.0, avg_volume / 1000000) * 0.5
_calculate_liquidity_score(st, raises) ==
    IF "liquidity_score" \in raises THEN 0
    ELSE IF st.avg_volume = 0 THEN 0
    ELSE LET volume_cv == (st.volume_std * 1000) \div st.avg_volume
             volume_adequacy == Min(1000, st.avg_volume * 10)
         IN  ((1000 - Min(1000, volume_cv)) * 5 + volume_adequacy * 5) \div 10

\* _classify_distribution, on the skewness (unit 1e-1) with kurtosis 0
_classify_distribution(skewness) ==
    IF Abs(skewness) < 5 THEN "normal"
    ELSE IF skewness > 5 THEN "right_skewed"
    ELSE IF skewness < -5 THEN "left_skewed"
    ELSE "other"

\* _analyze_price_distribution: the all-zero record of type "unclassifiable"
\* when the computation raises
_analyze_price_distribution(st, raises) ==
    IF "price_distribution" \in raises
    THEN [skewness |-> 0, distribution_type |-> "unclassifiable"]
    ELSE [skewness |-> st.skewness,
          distribution_type |-> _classify_distribution(st.skewness)]

\* _classify_volatility
_classify_volatility(volatility) ==
    IF volatility < 10 THEN "low"
    ELSE IF volatility < 25 THEN "medium"
    ELSE IF volatility < 40 THEN "high"
    ELSE "extreme"

\* _classify_amplitude
_classify_amplitude(avg_amplitude) ==
    IF avg_amplitude < 1000 THEN "tiny"
    ELSE IF avg_amplitude < 1500 THEN "small"
    ELSE IF avg_amplitude < 2500 THEN "medium"
    ELSE IF avg_amplitude < 4000 THEN "large"
    ELSE "huge"

\* _classify_market_character (trend_direction is not used by the code)
_classify_market_character(oscillation_score, trend_direction) ==
    IF oscillation_score > 600 THEN "ranging"
    ELSE IF oscillation_score > 300 THEN "weak_trend"
    ELSE "strong_trend"

\* The text of the error record of the except clause of
\* analyze_etf_characteristics: it carries str(e) of the exception raised.
AnalysisFailedText(group) ==
    CASE group = "price_stats" -> "analysis_failed: price_stats"
      [] group = "volatility" -> "analysis_failed: volatility"
      [] group = "amplitude_stats" -> "analysis_failed: amplitude_stats"
      [] group = "volume_stats" -> "analysis_failed: volume_stats"
      [] OTHER -> "analysis_failed: date_range"

InsufficientDataText == "insufficient_data"

\* Faulty variant of InsufficientData: only the empty series.
InsufficientDataEmptyOnly(n) == n = 0

\* historical_data.empty or len(historical_data) < 20
InsufficientData(n) == n = 0 \/ n < MinDataPoints

\* The first inline statistic, in the order of the code, whose computation
\* raises: the exception that reaches the except clause.
FirstInlineFailure(raises) ==
    LET idx == {i \in 1..Len(InlineGroups) : InlineGroups[i] \in raises}
    IN  InlineGroups[CHOOSE i \in idx : \A j \in idx : i <= j]

\* analyze_etf_characteristics on a series of n points whose statistics are st
\* and on which the computations of the groups in raises raise an exception.
analyze_etf_characteristics(n, st, raises) ==
    IF InsufficientData(n)
    THEN [error |-> InsufficientDataText, data_points |-> n]
    ELSE IF \E i \in 1..Len(InlineGroups) : InlineGroups[i] \in raises
    THEN [error |-> AnalysisFailedText(FirstInlineFailure(raises))]
    ELSE LET trend_slope == _calculate_trend_slope(st, raises)
             trend_direction == _determine_trend_direction(trend_slope)
             oscillation_score == _calculate_oscillation_score(st, raises)
             liquidity_score == _calculate_liquidity_score(st, raises)
         IN  [avg_price |-> st.avg_price,
              price_std |-> st.price_std,
              volatility |-> st.volatility,
              volatility_level |-> _classify_volatility(st.volatility),
              avg_amplitude |-> st.avg_amplitude,
              amplitude_std |-> st.amplitude_std,
              amplitude_level |-> _classify_amplitude(st.avg_amplitude),
              avg_volume |-> st.avg_volume,
              volume_std |-> st.volume_std,
              liquidity_score |-> liquidity_score,
              trend_slope |-> trend_slope,
              trend_direction |-> trend_direction,
              oscillation_score |-> oscillation_score,
              market_character |->
                  _classify_market_character(oscillation_score, trend_direction),
              price_distribution |-> _analyze_price_distribution(st, raises),
              data_points |-> n,
              start_date |-> st.start_date,
              end_date |-> st.end_date]

\* The sets of statistic groups that may raise on one series.
FaultSets == {f \in SUBSET StatisticGroups : Cardinality(f) <= MaxFaults}

(***************************************************************************)
(* Specification of the analysis: a caller analyses one series.            *)
(***************************************************************************)
InitAnalyze ==
    /\ pc = "start"
    /\ historical_data = EmptyDict
    /\ analysis_result = EmptyDict
    /\ grid_params = EmptyDict
    /\ user_frequency = "medium"
    /\ verdict = EmptyDict
    /\ optimal_range = EmptyDict
    /\ optimal_grid_count = EmptyDict
    /\ range_score = 0
    /\ count_score = 0
    /\ grid_evaluation = EmptyDict

\* analysis_result = analyzer.analyze_etf_characteristics(historical_data)
Analyze ==
    /\ pc = "start"
    /\ \E n \in 0..MaxLen, raises \in FaultSets, st \in SeriesStats :
          /\ historical_data' = [len |-> n, raises |-> raises, stats |-> st]
          /\ analysis_result' = analyze_etf_characteristics(n, st, raises)
    /\ pc' = "analysed"
    /\ UNCHANGED <<grid_params, user_frequency, verdict, optimal_range,
                   optimal_grid_count, range_score, count_score, grid_evaluation>>

NextAnalyze == Analyze

SpecAnalyze == InitAnalyze /\ [][NextAnalyze]_vars

(***************************************************************************)
(* Values of grid_params.  A value is a number or something that is not   *)
(* one (None, a string): comparing or dividing the latter with a number    *)
(* raises TypeError.                                                       *)
(***************************************************************************)
Num(n) == [num |-> TRUE, v |-> n]
NotANumber == [num |-> FALSE, v |-> 0]

(***************************************************************************)
(* Optimal-parameter calculator                                            *)
(***************************************************************************)
\* target_daily_frequencies.get(user_frequency, 2.5)
TargetTriggers(frequency) ==
    CASE frequency = "high" -> 55
      [] frequency = "medium" -> 25
      [] frequency = "low" -> 10
      [] OTHER -> 25

\* the 2% floor and the 50% ceiling of the price range
RangeFloor == 200000
RangeCeiling == 5000000

\* Faulty variant of RepairMinRange: no repair.
RepairMinRangeMissing(min_range, max_range) == min_range

\* the min_range >= max_range repair of _calculate_optimal_price_range
RepairMinRange(min_range, max_range) ==
    IF min_range >= max_range THEN (max_range * 8) \div 10 ELSE min_range

\* _calculate_optimal_price_range.  Its except clause is not reachable on
\* numbers: the body only multiplies and compares.
_calculate_optimal_price_range(avg_amplitude, target_triggers) ==
    LET frequency_multiplier == target_triggers * 12      \* unit 1e-2
        safety_margin == 15                               \* unit 1e-1
        base_range == avg_amplitude * frequency_multiplier * safety_margin
        min_range == Max(RangeFloor, base_range * 8)
        max_range == Min(RangeCeiling, base_range * 13)
    IN  [base_range |-> base_range,
         min_range |-> RepairMinRange(min_range, max_range),
         max_range |-> max_range]

\* default_ranges.get(frequency_type, default_ranges['medium']) of the except
\* clause of _calculate_optimal_grid_count
DefaultCountBand(frequency_type) ==
    LET default == CASE frequency_type = "high" -> [min_count |-> 12, max_count |-> 25]
                     [] frequency_type = "medium" -> [min_count |-> 6, max_count |-> 15]
                     [] frequency_type = "low" -> [min_count |-> 3, max_count |-> 8]
                     [] OTHER -> [min_count |-> 6, max_count |-> 15]
    IN  [base_count |-> (default.min_count + default.max_count) \div 2,
         min_count |-> default.min_count,
         max_count |-> default.max_count,
         frequency_type |-> frequency_type]

\* The tier's offsets and caps around base_count, and the min >= max repair.
CountBand(frequency_type, base_count) ==
    LET min_count == CASE frequency_type = "high" -> Max(12, base_count - 5)
                       [] frequency_type = "medium" -> Max(6, base_count - 3)
                       [] OTHER -> Max(3, base_count - 2)
        max_count == CASE frequency_type = "high" -> Min(30, base_count + 8)
                       [] frequency_type = "medium" -> Min(18, base_count + 5)
                       [] OTHER -> Min(10, base_count + 3)
    IN  [base_count |-> base_count,
         min_count |-> min_count,
         max_count |-> IF min_count >= max_count THEN min_count + 3 ELSE max_count,
         frequency_type |-> frequency_type]

\* Faulty variant of _calculate_optimal_grid_count: no fallback, a quotient of
\* 0 when the divisor is 0.
_calculate_optimal_grid_count_zero_quotient(frequency_type, target_triggers, base_range, avg_amplitude) ==
    IF avg_amplitude = 0
    THEN CountBand(frequency_type, 0)
    ELSE CountBand(frequency_type,
                   (base_range * target_triggers) \div (avg_amplitude * 10000))

\* Faulty variant of _calculate_optimal_grid_count: the range is divided by the
\* trigger count alone, base_count = int(base_range / target_triggers), so the
\* band moves with the amplitude.
_calculate_optimal_grid_count_per_trigger(frequency_type, target_triggers, base_range, avg_amplitude) ==
    IF avg_amplitude = 0
    THEN DefaultCountBand(frequency_type)
    ELSE CountBand(frequency_type, (base_range * 10) \div (target_triggers * 1000000))

\* _calculate_optimal_grid_count.
\* base_count = int(base_range / (avg_amplitude / target_triggers)): with
\* avg_amplitude = 0 the divisor is 0.0 and the division raises
\* ZeroDivisionError, which the except clause answers with the default band.
\* In the units of the model the quotient is
\* (base_range * target_triggers) / (avg_amplitude * 10^4).
_calculate_optimal_grid_count(frequency_type, target_triggers, base_range, avg_amplitude) ==
    IF avg_amplitude = 0
    THEN DefaultCountBand(frequency_type)
    ELSE CountBand(frequency_type,
                   (base_range * target_triggers) \div (avg_amplitude * 10000))

(***************************************************************************)
(* Grid-parameter scorer                                                   *)
(***************************************************************************)
\* The ladder on deviation = abs(actual - center) / center with
\* center = (lo + hi) / 2, i.e. abs(2 actual - (lo + hi)) / (lo + hi).
DeviationScore(actual, lo, hi) ==
    LET s == lo + hi
        d == Abs(2 * actual - s)
    IN  IF 5 * d < s THEN 4
        ELSE IF 5 * d < 2 * s THEN 3
        ELSE IF 5 * d < 3 * s THEN 2
        ELSE IF d < s THEN 1
        ELSE 0

\* The body shared by _score_price_range and _score_grid_count.  The bare
\* except returns 2 when the comparison raises TypeError (actual is not a
\* number) or the division raises ZeroDivisionError (optimal_center is 0).
ScoreAgainstBand(actual, lo, hi) ==
    IF ~actual.num THEN 2
    ELSE IF lo <= actual.v /\ actual.v <= hi THEN 5
    ELSE IF lo + hi = 0 THEN 2
    ELSE DeviationScore(actual.v, lo, hi)

\* _score_price_range
_score_price_range(actual_range, optimal) ==
    ScoreAgainstBand(actual_range, optimal.min_range, optimal.max_range)

\* _score_grid_count
_score_grid_count(actual_count, optimal) ==
    ScoreAgainstBand(actual_count, optimal.min_count, optimal.max_count)

\* the frequency-match bonus
BonusScore(frequency_match_score) ==
    IF frequency_match_score > 80 THEN 2
    ELSE IF frequency_match_score > 60 THEN 1
    ELSE 0

\* Faulty variant of TotalScore: no cap.
TotalScoreUncapped(rs, cs, bonus) == rs + cs + bonus

\* total_score = min(10, range_score + count_score + bonus_score)
TotalScore(rs, cs, bonus) == Min(10, rs + cs + bonus)

\* f"{x:.1%}" of a ratio in unit 1e-7: the percentage rounded to one decimal,
\* in unit 1e-3. The one value of the model on a decimal tie is the band bound
\* 0.01 * 30.0 * 1.5 * 1.3, the double 0.058499999999999996, printed "5.8%":
\* a tie rounds down.
FormatPercent1(x) == (x + 4999) \div 10000

\* Faulty variant of RangeWarning: the warning never says "too small".
RangeWarningAlwaysTooLarge(rs, actual, optimal) ==
    IF rs < 3
    THEN << [kind |-> "range_too_large",
             actual |-> FormatPercent1(actual),
             min |-> FormatPercent1(optimal.min_range),
             max |-> FormatPercent1(optimal.max_range)] >>
    ELSE << >>

\* The warnings of step 7 of _evaluate_grid_params_with_frequency_matching.
RangeWarning(rs, actual, optimal) ==
    IF rs < 3
    THEN << [kind |-> IF actual < optimal.min_range
                      THEN "range_too_small" ELSE "range_too_large",
             actual |-> FormatPercent1(actual),
             min |-> FormatPercent1(optimal.min_range),
             max |-> FormatPercent1(optimal.max_range)] >>
    ELSE << >>

CountWarning(cs, actual, optimal) ==
    IF cs < 3
    THEN << [kind |-> IF actual < optimal.min_count
                      THEN "count_too_few" ELSE "count_too_many",
             actual |-> actual,
             min |-> optimal.min_count,
             max |-> optimal.max_count] >>
    ELSE << >>

FrequencyWarning(frequency_match_score) ==
    IF frequency_match_score < 60
    THEN << [kind |-> "frequency_mismatch",
             actual |-> FormatPercent1(frequency_match_score * 100000)] >>
    ELSE << >>

\* The dict of the except clause of
\* _evaluate_grid_params_with_frequency_matching.
GridEvaluationFailed ==
    [total_score |-> 0,
     warnings |-> << [kind |-> "evaluation_failed"] >>,
     suggestions |-> << >>]

\* An exception escapes the scorers' own try/except and reaches the except
\* clause of _evaluate_grid_params_with_frequency_matching when
\* frequency_match_score is compared and is not a number, or when a sub-score
\* is below 3 and the warning compares or formats an actual value that is not a
\* number.
GridEvaluationRaises(actual_range, actual_count, fms, rs, cs) ==
    \/ ~fms.num
    \/ rs < 3 /\ ~actual_range.num
    \/ cs < 3 /\ ~actual_count.num

\* _evaluate_grid_params_with_frequency_matching
_evaluate_grid_params_with_frequency_matching(analysis, params, frequency) ==
    LET target_triggers == TargetTriggers(frequency)
        avg_amplitude == Get(analysis, "avg_amplitude", 20)
        opt_range == _calculate_optimal_price_range(avg_amplitude, target_triggers)
        opt_count == _calculate_optimal_grid_count(
                         frequency, target_triggers, opt_range.base_range, avg_amplitude)
        actual_range == Get(params, "price_range_ratio", Num(0))
        actual_count == Get(params, "grid_count", Num(0))
        rs == _score_price_range(actual_range, opt_range)
        cs == _score_grid_count(actual_count, opt_count)
        fms == Get(params, "frequency_match_score", Num(0))
    IN  IF GridEvaluationRaises(actual_range, actual_count, fms, rs, cs)
        THEN GridEvaluationFailed
        ELSE LET bonus_score == BonusScore(fms.v)
             IN  [total_score |-> TotalScore(rs, cs, bonus_score),
                  range_evaluation |->
                      [score |-> rs, actual |-> actual_range.v, optimal |-> opt_range,
                       status |-> IF rs >= 4 THEN "good" ELSE "needs_adjustment"],
                  count_evaluation |->
                      [score |-> cs, actual |-> actual_count.v, optimal |-> opt_count,
                       status |-> IF cs >= 4 THEN "good" ELSE "needs_adjustment"],
                  frequency_matching |->
                      [target_triggers |-> target_triggers,
                       match_score |-> fms.v,
                       bonus_score |-> bonus_score],
                  warnings |-> RangeWarning(rs, actual_range.v, opt_range)
                               \o CountWarning(cs, actual_count.v, opt_count)
                               \o FrequencyWarning(fms.v),
                  suggestions |-> << >>]

(***************************************************************************)
(* Suitability evaluator                                                   *)
(***************************************************************************)
\* dimension 1: amplitude (30)
AmplitudeDimension(avg_amplitude) ==
    IF avg_amplitude >= 2000
    THEN [score |-> 30, reasons |-> << >>, warnings |-> << >>]
    ELSE IF avg_amplitude >= 1500
    THEN [score |-> 20, reasons |-> << >>, warnings |-> << [kind |-> "amplitude_low"] >>]
    ELSE [score |-> 0, reasons |-> << [kind |-> "amplitude_too_small"] >>, warnings |-> << >>]

\* dimension 2: volatility (25)
VolatilityDimension(volatility) ==
    IF 15 <= volatility /\ volatility <= 40
    THEN [score |-> 25, reasons |-> << >>, warnings |-> << >>]
    ELSE IF volatility < 15
    THEN [score |-> 15, reasons |-> << >>, warnings |-> << [kind |-> "volatility_low"] >>]
    ELSE [score |-> 10, reasons |-> << >>, warnings |-> << [kind |-> "volatility_high"] >>]

\* dimension 3: market character (20)
MarketDimension(market_character) ==
    IF market_character = "ranging"
    THEN [score |-> 20, reasons |-> << >>, warnings |-> << >>]
    ELSE IF market_character = "weak_trend"
    THEN [score |-> 15, reasons |-> << >>, warnings |-> << >>]
    ELSE IF market_character = "strong_trend"
    THEN [score |-> 5, reasons |-> << [kind |-> "strong_trend"] >>, warnings |-> << >>]
    ELSE [score |-> 0, reasons |-> << >>, warnings |-> << >>]

\* dimension 4: liquidity (15)
LiquidityDimension(liquidity_score, avg_volume) ==
    IF liquidity_score >= 700 /\ avg_volume >= 100
    THEN [score |-> 15, reasons |-> << >>, warnings |-> << >>]
    ELSE IF liquidity_score >= 500 /\ avg_volume >= 50
    THEN [score |-> 10, reasons |-> << >>, warnings |-> << [kind |-> "liquidity_moderate"] >>]
    ELSE [score |-> 0, reasons |-> << [kind |-> "liquidity_insufficient"] >>, warnings |-> << >>]

\* Faulty variant of IsSuitable: the score alone decides.
IsSuitableByScoreOnly(score, reasons) == score >= 60

\* is_suitable = score >= 60 and len(reasons) == 0
IsSuitable(score, reasons) == score >= 60 /\ Len(reasons) = 0

\* _generate_recommendation: which lines the text holds
_generate_recommendation(is_suitable, score, reasons, warnings) ==
    [headline |-> IF is_suitable THEN "suitable" ELSE "not_suitable",
     reasons |-> IF is_suitable THEN << >> ELSE reasons,
     warnings |-> warnings,
     score |-> score]

\* Faulty variant of ErrorVerdict: a fixed reason text.
ErrorVerdictFixedReason(analysis) ==
    [is_suitable |-> FALSE,
     reason |-> InsufficientDataText,
     score |-> 0,
     dimension_scores |-> [amplitude_score |-> 0, volatility_score |-> 0,
                           market_score |-> 0, liquidity_score |-> 0,
                           grid_params_score |-> 0]]

\* The verdict of the short-circuit on an analysis that carries an error.
ErrorVerdict(analysis) ==
    [is_suitable |-> FALSE,
     reason |-> analysis["error"],
     score |-> 0,
     dimension_scores |-> [amplitude_score |-> 0, volatility_score |-> 0,
                           market_score |-> 0, liquidity_score |-> 0,
                           grid_params_score |-> 0]]

\* evaluate_adaptability.  The fields of analysis, when present, are numbers
\* (strings for market_character), so that the except clause of the function
\* is not reached.
evaluate_adaptability(analysis, params, frequency) ==
    IF "error" \in DOMAIN analysis
    THEN ErrorVerdict(analysis)
    ELSE LET amp == AmplitudeDimension(Get(analysis, "avg_amplitude", 0))
             vol == VolatilityDimension(Get(analysis, "volatility", 0))
             mkt == MarketDimension(Get(analysis, "market_character", ""))
             liq == LiquidityDimension(Get(analysis, "liquidity_score", 0),
                                       Get(analysis, "avg_volume", 0))
             grid_params_evaluation ==
                 _evaluate_grid_params_with_frequency_matching(analysis, params, frequency)
             score == amp.score + vol.score + mkt.score + liq.score
                      + grid_params_evaluation.total_score
             reasons == amp.reasons \o mkt.reasons \o liq.reasons
             warnings == amp.warnings \o vol.warnings \o liq.warnings
                         \o (IF grid_params_evaluation.total_score < 8
                             THEN grid_params_evaluation.warnings ELSE << >>)
             is_suitable == IsSuitable(score, reasons)
         IN  [is_suitable |-> is_suitable,
              score |-> score,
              max_score |-> 100,
              dimension_scores |->
                  [amplitude_score |-> amp.score, volatility_score |-> vol.score,
                   market_score |-> mkt.score, liquidity_score |-> liq.score,
                   grid_params_score |-> grid_params_evaluation.total_score],
              grid_params_details |-> grid_params_evaluation,
              reasons |-> reasons,
              warnings |-> warnings,
              recommendation |->
                  _generate_recommendation(is_suitable, score, reasons, warnings)]

(***************************************************************************)
(* Inputs of the evaluation                                                *)
(***************************************************************************)
\* user_frequency is a free string: the three tiers and one that is none.
Frequencies == {"high", "medium", "low", "daily"}

\* A key that the caller leaves out of grid_params.
Absent == [num |-> FALSE, v |-> -1]

\* The grid_params dict with the given values, without the keys left out.
ParamsDict(r, c, f) ==
    LET all == [price_range_ratio |-> r, grid_count |-> c, frequency_match_score |-> f]
    IN  [k \in {x \in DOMAIN all : all[x] # Absent} |-> all[k]]

\* Actual values tried against a band [lo, hi]: its two bounds, values around
\* it, something that is not a number, and the key left out.
ActualsAround(lo, hi, others) ==
    {Num(lo), Num(hi), NotANumber, Absent} \cup {Num(x) : x \in others}

\* The analysis dicts a caller builds by hand.
CallerAnalyses ==
    { EmptyDict,
      [avg_amplitude |-> 2500, volatility |-> 20, market_character |-> "unknown",
       liquidity_score |-> 800, avg_volume |-> 200],
      [volatility |-> 20, market_character |-> "ranging",
       liquidity_score |-> 800, avg_volume |-> 200] }

\* The analysis dicts handed to evaluate_adaptability: what
\* analyze_etf_characteristics returns on a series without faults, on a short
\* series, on a series with one fault, and the dicts built by hand.
AnalysisInputs ==
    {analyze_etf_characteristics(MinDataPoints, st, {}) : st \in SeriesStats}
    \cup {analyze_etf_characteristics(n, CHOOSE st \in SeriesStats : TRUE, {}) :
             n \in 0..(MinDataPoints - 1)}
    \cup {analyze_etf_characteristics(MinDataPoints, st, {g}) :
             st \in {x \in SeriesStats : x.avg_amplitude = 2500 /\ x.volatility = 15},
             g \in StatisticGroups}
    \cup CallerAnalyses

(***************************************************************************)
(* Specification of the evaluation: a caller evaluates one analysis.       *)
(***************************************************************************)
Init ==
    /\ pc = "analysed"
    /\ historical_data = EmptyDict
    /\ analysis_result \in AnalysisInputs
    /\ grid_params = EmptyDict
    /\ user_frequency = "medium"
    /\ verdict = EmptyDict
    /\ optimal_range = EmptyDict
    /\ optimal_grid_count = EmptyDict
    /\ range_score = 0
    /\ count_score = 0
    /\ grid_evaluation = EmptyDict

\* verdict = analyzer.evaluate_adaptability(analysis_result, grid_params, user_frequency)
Evaluate ==
    /\ pc = "analysed"
    /\ \E frequency \in Frequencies :
          LET amplitude == Get(analysis_result, "avg_amplitude", 20)
              opt_range == _calculate_optimal_price_range(amplitude, TargetTriggers(frequency))
              opt_count == _calculate_optimal_grid_count(
                               frequency, TargetTriggers(frequency),
                               opt_range.base_range, amplitude)
          IN  \E r \in ActualsAround(opt_range.min_range, opt_range.max_range, {1500000}),
                 c \in ActualsAround(opt_count.min_count, opt_count.max_count, {10}),
                 f \in {Num(50), Num(70), Num(90)} :
                   /\ user_frequency' = frequency
                   /\ grid_params' = ParamsDict(r, c, f)
                   /\ verdict' = evaluate_adaptability(
                                     analysis_result, ParamsDict(r, c, f), frequency)
    /\ pc' = "evaluated"
    /\ UNCHANGED <<historical_data, analysis_result, optimal_range, optimal_grid_count,
                   range_score, count_score, grid_evaluation>>

Next == Evaluate

Spec == Init /\ [][Next]_vars

(***************************************************************************)
(* Specification of the grid-parameter evaluation, step by step:           *)
(* _evaluate_grid_params_with_frequency_matching on one amplitude, one     *)
(* frequency and one grid_params.                                          *)
(***************************************************************************)
LargeAmplitudes == {20, 50, 100, 200, 350, 800, 1500, 2500}
GridAmplitudes == (0..MaxSmallAmplitude) \cup LargeAmplitudes

InitGrid ==
    /\ pc = "grid_start"
    /\ historical_data = EmptyDict
    /\ analysis_result \in {[avg_amplitude |-> a] : a \in GridAmplitudes} \cup {EmptyDict}
    /\ grid_params = EmptyDict
    /\ user_frequency \in Frequencies
    /\ verdict = EmptyDict
    /\ optimal_range = EmptyDict
    /\ optimal_grid_count = EmptyDict
    /\ range_score = 0
    /\ count_score = 0
    /\ grid_evaluation = EmptyDict

\* optimal_range = self._calculate_optimal_price_range(avg_amplitude, target_triggers)
CalcOptimalRange ==
    /\ pc = "grid_start"
    /\ optimal_range' = _calculate_optimal_price_range(
                            Get(analysis_result, "avg_amplitude", 20),
                            TargetTriggers(user_frequency))
    /\ pc' = "range_calculated"
    /\ UNCHANGED <<historical_data, analysis_result, grid_params, user_frequency, verdict,
                   optimal_grid_count, range_score, count_score, grid_evaluation>>

\* optimal_grid_count = self._calculate_optimal_grid_count(...)
CalcOptimalGridCount ==
    /\ pc = "range_calculated"
    /\ optimal_grid_count' = _calculate_optimal_grid_count(
                                 user_frequency, TargetTriggers(user_frequency),
                                 optimal_range.base_range,
                                 Get(analysis_result, "avg_amplitude", 20))
    /\ pc' = "count_calculated"
    /\ UNCHANGED <<historical_data, analysis_result, grid_params, user_frequency, verdict,
                   optimal_range, range_score, count_score, grid_evaluation>>

\* range_score = self._score_price_range(actual_range, optimal_range)
\* count_score = self._score_grid_count(actual_count, optimal_grid_count)
\* on the grid_params of the caller
ScoreActual ==
    /\ pc = "count_calculated"
    /\ \E r \in ActualsAround(optimal_range.min_range, optimal_range.max_range,
                              {0, 500000, 1500000, 3000000, 10000000}),
          c \in ActualsAround(optimal_grid_count.min_count, optimal_grid_count.max_count,
                              {0, 5, 10, 20, 60, 120}),
          f \in {Num(50), Num(60), Num(70), Num(80), Num(90), NotANumber, Absent} :
            /\ grid_params' = ParamsDict(r, c, f)
            /\ range_score' = _score_price_range(
                                  Get(ParamsDict(r, c, f), "price_range_ratio", Num(0)),
                                  optimal_range)
            /\ count_score' = _score_grid_count(
                                  Get(ParamsDict(r, c, f), "grid_count", Num(0)),
                                  optimal_grid_count)
    /\ pc' = "scored"
    /\ UNCHANGED <<historical_data, analysis_result, user_frequency, verdict,
                   optimal_range, optimal_grid_count, grid_evaluation>>

\* the rest of _evaluate_grid_params_with_frequency_matching: bonus, total,
\* warnings and the returned dict, or the dict of its except clause
ReturnGridEvaluation ==
    /\ pc = "scored"
    /\ grid_evaluation' = _evaluate_grid_params_with_frequency_matching(
                              analysis_result, grid_params, user_frequency)
    /\ pc' = "grid_evaluated"
    /\ UNCHANGED <<historical_data, analysis_result, grid_params, user_frequency, verdict,
                   optimal_range, optimal_grid_count, range_score, count_score>>

NextGrid ==
    \/ CalcOptimalRange
    \/ CalcOptimalGridCount
    \/ ScoreActual
    \/ ReturnGridEvaluation

SpecGrid == InitGrid /\ [][NextGrid]_vars

(***************************************************************************)
(* Properties                                                              *)
(***************************************************************************)
Evaluated == pc = "evaluated"
ErrorFree == "error" \notin DOMAIN analysis_result
Reasons == Get(verdict, "reasons", << >>)

\* C1: the verdict of evaluate_adaptability is suitable if and only if its
\* score is at least 60 and it lists no disqualifying reason; an analysis whose
\* mean amplitude is below 1.5 is never suitable, whatever its score.
C1_SuitableIffScoreAndNoReasons ==
    Evaluated =>
        /\ verdict.is_suitable <=> (verdict.score >= 60 /\ Len(Reasons) = 0)
        /\ (ErrorFree /\ Get(analysis_result, "avg_amplitude", 0) < 1500)
              => /\ ~verdict.is_suitable
                 /\ verdict.dimension_scores.amplitude_score = 0
                 /\ \E i \in 1..Len(Reasons) : Reasons[i].kind = "amplitude_too_small"

\* A low-amplitude analysis scoring 60 or more is reached, and is unsuitable.
C1_Witness ==
    /\ Evaluated /\ ErrorFree
    /\ Get(analysis_result, "avg_amplitude", 0) = 800
    /\ verdict.score >= 60
    /\ ~verdict.is_suitable

AfterRange == pc \in {"range_calculated", "count_calculated", "scored", "grid_evaluated"}
AfterCount == pc \in {"count_calculated", "scored", "grid_evaluated"}
AfterScore == pc \in {"scored", "grid_evaluated"}
GridAmplitude == Get(analysis_result, "avg_amplitude", 20)
ActualRange == Get(grid_params, "price_range_ratio", Num(0))
ActualCount == Get(grid_params, "grid_count", Num(0))
MatchScore == Get(grid_params, "frequency_match_score", Num(0))

\* C2: for every mean amplitude and target trigger count the band of
\* _calculate_optimal_price_range satisfies 0.02 <= min_range < max_range <= 0.50.
C2_RangeBandWithinLimits ==
    AfterRange =>
        /\ RangeFloor <= optimal_range.min_range
        /\ optimal_range.min_range < optimal_range.max_range
        /\ optimal_range.max_range <= RangeCeiling

\* C3: a bound (min or max) of the band of the calculator, passed back to the
\* scorer as the actual value, scores 5 on its axis.
C3_BandBoundsScoreFive ==
    AfterScore =>
        /\ ActualRange \in {Num(optimal_range.min_range), Num(optimal_range.max_range)}
              => range_score = 5
        /\ ActualCount \in {Num(optimal_grid_count.min_count),
                            Num(optimal_grid_count.max_count)}
              => count_score = 5

\* On an amplitude whose band needed the min >= max repair, the repaired lower
\* bound and the upper count bound are passed back and score 5.
C3_Witness ==
    /\ AfterScore
    /\ GridAmplitude = 1
    /\ ActualRange = Num(optimal_range.min_range)
    /\ ActualCount = Num(optimal_grid_count.max_count)
    /\ range_score = 5 /\ count_score = 5

Analysed == pc = "analysed"

\* C4: on a series of fewer than 20 points (the empty one included)
\* analyze_etf_characteristics returns the error record: the insufficient-data
\* error, data_points equal to the length of the series, and no statistic.
C4_ShortSeriesErrorRecord ==
    (Analysed /\ historical_data.len < MinDataPoints) =>
        /\ DOMAIN analysis_result = {"error", "data_points"}
        /\ analysis_result.error = InsufficientDataText
        /\ analysis_result.data_points = historical_data.len

\* A series of 19 points is analysed and answered with the error record.
C4_Witness ==
    /\ Analysed
    /\ historical_data.len = MinDataPoints - 1
    /\ analysis_result = [error |-> InsufficientDataText, data_points |-> MinDataPoints - 1]

\* C5: on an analysis that carries an error the evaluator short-circuits: not
\* suitable, score 0, every dimension score 0, the reason is the error text of
\* the analysis, and neither a dimension nor the grid parameters are evaluated.
C5_ErrorShortCircuit ==
    (Evaluated /\ ~ErrorFree) =>
        /\ verdict.is_suitable = FALSE
        /\ verdict.score = 0
        /\ \A k \in DOMAIN verdict.dimension_scores : verdict.dimension_scores[k] = 0
        /\ verdict.reason = analysis_result.error
        /\ DOMAIN verdict = {"is_suitable", "reason", "score", "dimension_scores"}

\* The error of a failed analysis is echoed by the verdict.
C5_Witness ==
    /\ Evaluated
    /\ analysis_result = [error |-> AnalysisFailedText("volume_stats")]
    /\ verdict.reason = AnalysisFailedText("volume_stats")
    /\ verdict.score = 0

\* The actual range and count are numbers inside the optimal bands reported by
\* the verdict.
InsideBands ==
    /\ "range_evaluation" \in DOMAIN verdict.grid_params_details
    /\ LET re == verdict.grid_params_details.range_evaluation
           ce == verdict.grid_params_details.count_evaluation
       IN  /\ ActualRange.num /\ ActualCount.num
           /\ re.optimal.min_range <= ActualRange.v /\ ActualRange.v <= re.optimal.max_range
           /\ ce.optimal.min_count <= ActualCount.v /\ ActualCount.v <= ce.optimal.max_count

OptimalScenario ==
    /\ Get(analysis_result, "avg_amplitude", 0) >= 2000
    /\ Get(analysis_result, "volatility", 0) >= 15
    /\ Get(analysis_result, "volatility", 0) <= 40
    /\ Get(analysis_result, "market_character", "") = "ranging"
    /\ Get(analysis_result, "liquidity_score", 0) >= 700
    /\ Get(analysis_result, "avg_volume", 0) >= 100
    /\ InsideBands
    /\ MatchScore.num /\ MatchScore.v > 80

\* C6: on an error-free analysis the score is the sum of the five dimension
\* scores, each in its set, hence in 0..100; and in the optimal scenario the
\* score is exactly 100 and the verdict is suitable.
C6_ScoreIsSumOfDimensions ==
    (Evaluated /\ ErrorFree) =>
        LET d == verdict.dimension_scores
        IN  /\ verdict.score = d.amplitude_score + d.volatility_score + d.market_score
                               + d.liquidity_score + d.grid_params_score
            /\ d.amplitude_score \in {0, 20, 30}
            /\ d.volatility_score \in {10, 15, 25}
            /\ d.market_score \in {0, 5, 15, 20}
            /\ d.liquidity_score \in {0, 10, 15}
            /\ d.grid_params_score \in 0..10
            /\ verdict.score \in 0..100
            /\ OptimalScenario => (verdict.score = 100 /\ verdict.is_suitable)

\* The optimal scenario is evaluated, and scores 100.
C6_Witness ==
    /\ Evaluated /\ ErrorFree
    /\ OptimalScenario
    /\ verdict.score = 100
    /\ verdict.is_suitable

\* The values of grid_params are numbers, or left out.
NumericParams == ActualRange.num /\ ActualCount.num /\ MatchScore.num

\* C7: with a mean amplitude of 0 the division of _calculate_optimal_grid_count
\* fails and the tier's default band is returned (high 12-25, medium 6-15, low
\* 3-8); the band is always usable (min_count < max_count); the enclosing
\* evaluation goes on to score both axes (the range against the band [0, 0]:
\* 5 for an actual 0, else the neutral 2), and on numeric grid_params it
\* returns the two sub-scores.
C7_ZeroAmplitudeDefaultBand ==
    /\ AfterCount =>
          /\ optimal_grid_count.min_count < optimal_grid_count.max_count
          /\ GridAmplitude = 0 =>
                <<optimal_grid_count.min_count, optimal_grid_count.max_count>> =
                    CASE user_frequency = "high" -> <<12, 25>>
                      [] user_frequency = "low" -> <<3, 8>>
                      [] OTHER -> <<6, 15>>
    /\ (AfterScore /\ GridAmplitude = 0) =>
          /\ range_score \in {2, 5}
          /\ range_score = 5 <=> ActualRange = Num(0)
          /\ count_score \in 0..5
          /\ count_score = 5 <=>
                 /\ ActualCount.num
                 /\ optimal_grid_count.min_count <= ActualCount.v
                 /\ ActualCount.v <= optimal_grid_count.max_count
    /\ (pc = "grid_evaluated" /\ GridAmplitude = 0 /\ NumericParams) =>
          /\ {"range_evaluation", "count_evaluation"} \subseteq DOMAIN grid_evaluation
          /\ grid_evaluation.range_evaluation.score = range_score
          /\ grid_evaluation.count_evaluation.score = count_score
          /\ grid_evaluation.count_evaluation.optimal = optimal_grid_count

\* The high tier with amplitude 0: band 12-25, evaluation completed.
C7_Witness ==
    /\ pc = "grid_evaluated"
    /\ GridAmplitude = 0
    /\ user_frequency = "high"
    /\ optimal_grid_count.min_count = 12 /\ optimal_grid_count.max_count = 25
    /\ ActualCount = Num(20)
    /\ "count_evaluation" \in DOMAIN grid_evaluation
    /\ grid_evaluation.count_evaluation.score = 5

\* Scoring the actual value fails: it is not a number, or it is outside a band
\* whose midpoint is 0.
ScoringFails(actual, lo, hi) ==
    \/ ~actual.num
    \/ lo + hi = 0 /\ ~(lo <= actual.v /\ actual.v <= hi)

\* C8: a failure while scoring the actual range or count makes that sub-score 2
\* and does not abort: the evaluation returns the total
\* min(10, range_score + count_score + bonus) computed with it.
C8_ScoringFailureIsNeutral ==
    (pc = "grid_evaluated" /\ MatchScore.num) =>
        LET rf == ScoringFails(ActualRange, optimal_range.min_range, optimal_range.max_range)
            cf == ScoringFails(ActualCount, optimal_grid_count.min_count,
                               optimal_grid_count.max_count)
        IN  (rf \/ cf) =>
               /\ rf => range_score = 2
               /\ cf => count_score = 2
               /\ grid_evaluation.total_score =
                      Min(10, range_score + count_score + BonusScore(MatchScore.v))

\* The statistics of the analysed series, as computed when nothing raises.
ComputedStats == historical_data.stats
Raised(g) == g \in historical_data.raises
InlineFailure == \E i \in 1..Len(InlineGroups) : Raised(InlineGroups[i])

\* The helper statistics hold the default where the helper raised and the
\* computed value elsewhere; the inline statistics are computed.
HelperStatsIsolated ==
    LET st == ComputedStats
        r == analysis_result
    IN  /\ ErrorFree
        /\ r.data_points = historical_data.len
        /\ r.avg_price = st.avg_price /\ r.price_std = st.price_std
        /\ r.volatility = st.volatility
        /\ r.avg_amplitude = st.avg_amplitude /\ r.amplitude_std = st.amplitude_std
        /\ r.avg_volume = st.avg_volume /\ r.volume_std = st.volume_std
        /\ r.start_date = st.start_date /\ r.end_date = st.end_date
        /\ r.trend_slope = (IF Raised("trend_slope") THEN 0 ELSE st.trend_slope)
        /\ r.oscillation_score =
              (IF Raised("oscillation_score") THEN 0
               ELSE _calculate_oscillation_score(st, {}))
        /\ r.liquidity_score =
              (IF Raised("liquidity_score") THEN 0
               ELSE _calculate_liquidity_score(st, {}))
        /\ r.price_distribution =
              (IF Raised("price_distribution")
               THEN [skewness |-> 0, distribution_type |-> "unclassifiable"]
               ELSE _analyze_price_distribution(st, {}))

LadderScore(actual, lo, hi) ==
    IF lo <= actual /\ actual <= hi THEN 5
    ELSE LET s == lo + hi
             d == Abs(2 * actual - s)
         IN  IF s > 0 /\ 10 * d < 2 * s THEN 4
             ELSE IF s > 0 /\ 10 * d < 4 * s THEN 3
             ELSE IF s > 0 /\ 10 * d < 6 * s THEN 2
             ELSE IF s > 0 /\ 10 * d < 10 * s THEN 1
             ELSE 0

\* C10: each sub-score is 5 exactly when the actual value is inside its band
\* and else 4, 3, 2, 1 or 0 by the relative deviation from the midpoint; the
\* bonus is 2, 1 or 0; the total is min(10, sum) and lies in 0..10; and with
\* price_range_ratio = 0 and grid_count = 0 both sub-scores are 0.
C10_ScoringFunction ==
    (pc = "grid_evaluated" /\ NumericParams) =>
        /\ range_score = LadderScore(ActualRange.v, optimal_range.min_range,
                                     optimal_range.max_range)
        /\ count_score = LadderScore(ActualCount.v, optimal_grid_count.min_count,
                                     optimal_grid_count.max_count)
        /\ grid_evaluation.total_score =
               Min(10, range_score + count_score
                       + (IF MatchScore.v > 80 THEN 2 ELSE IF MatchScore.v > 60 THEN 1 ELSE 0))
        /\ grid_evaluation.total_score \in 0..10
        /\ (ActualRange.v = 0 /\ ActualCount.v = 0) => (range_score = 0 /\ count_score = 0)

Tiers == {"high", "medium", "low"}
TierFloor(tier) == CASE tier = "high" -> 12 [] tier = "medium" -> 6 [] OTHER -> 3
TierCap(tier) == CASE tier = "high" -> 30 [] tier = "medium" -> 18 [] OTHER -> 10

\* C11: for every tier in {high, medium, low} and every non-zero mean amplitude
\* the band of _calculate_optimal_grid_count has min_count < max_count,
\* min_count at least the tier's floor (12 / 6 / 3) and max_count at most the
\* tier's hard cap (30 / 18 / 10).
C11_CountBandWithinTierLimits ==
    (AfterCount /\ user_frequency \in Tiers /\ GridAmplitude # 0) =>
        /\ optimal_grid_count.min_count < optimal_grid_count.max_count
        /\ optimal_grid_count.min_count >= TierFloor(user_frequency)
        /\ optimal_grid_count.max_count <= TierCap(user_frequency)

\* The bands and sub-scores of the evaluation behind the verdict.
VerdictOptimalRange ==
    _calculate_optimal_price_range(GridAmplitude, TargetTriggers(user_frequency))
VerdictOptimalCount ==
    _calculate_optimal_grid_count(user_frequency, TargetTriggers(user_frequency),
                                  VerdictOptimalRange.base_range, GridAmplitude)
VerdictRangeScore == _score_price_range(ActualRange, VerdictOptimalRange)
VerdictCountScore == _score_grid_count(ActualCount, VerdictOptimalCount)

RangeKinds == {"range_too_small", "range_too_large"}
CountKinds == {"count_too_few", "count_too_many"}
HasKind(ws, kinds) == \E i \in 1..Len(ws) : ws[i].kind \in kinds
Lists(ws, w) == \E i \in 1..Len(ws) : ws[i] = w

\* The warning the claim expects for an actual range below or above the band,
\* with the actual value and the band as percentages, and likewise for the count.
ExpectedRangeWarning ==
    [kind |-> IF ActualRange.v < VerdictOptimalRange.min_range
              THEN "range_too_small" ELSE "range_too_large",
     actual |-> (ActualRange.v + 4999) \div 10000,
     min |-> (VerdictOptimalRange.min_range + 4999) \div 10000,
     max |-> (VerdictOptimalRange.max_range + 4999) \div 10000]
ExpectedCountWarning ==
    [kind |-> IF ActualCount.v < VerdictOptimalCount.min_count
              THEN "count_too_few" ELSE "count_too_many",
     actual |-> ActualCount.v,
     min |-> VerdictOptimalCount.min_count,
     max |-> VerdictOptimalCount.max_count]

\* C12 as stated: whenever the range sub-score is below 3 the verdict's
\* warnings list contains a price-range adjustment warning with the actual
\* value and the recommended band, whenever the count sub-score is below 3 it
\* contains a grid-count adjustment warning likewise, and whenever
\* frequency_match_score is below 0.6 it contains a frequency-mismatch warning;
\* each says "too small/few" when the actual value is below the band's min and
\* "too large/many" otherwise.
C12_VerdictWarningSelection ==
    (Evaluated /\ ErrorFree /\ NumericParams) =>
        /\ VerdictRangeScore < 3 => Lists(verdict.warnings, ExpectedRangeWarning)
        /\ VerdictCountScore < 3 => Lists(verdict.warnings, ExpectedCountWarning)
        /\ MatchScore.v < 60 => HasKind(verdict.warnings, {"frequency_mismatch"})

\* The grid-parameter evaluation runs to its end: frequency_match_score is a
\* number, and so is each actual value whose sub-score is below 3.
GridEvaluationCompletes ==
    /\ MatchScore.num
    /\ VerdictRangeScore < 3 => ActualRange.num
    /\ VerdictCountScore < 3 => ActualCount.num

\* C12 as amended: the three warnings are selected into the warnings list of
\* the grid-parameter evaluation (grid_params_details), each exactly when its
\* condition holds, with "too small/few" for an actual value below the band's
\* min and "too large/many" otherwise; the verdict's warnings list takes them
\* over only when the grid-parameter total is below 8, and has none of them
\* otherwise; and when the evaluation does not run to its end neither list has
\* an adjustment or mismatch warning, only the evaluation-failure warning.
C12_GridWarningSelection ==
    (Evaluated /\ ErrorFree) =>
        LET details == verdict.grid_params_details
            gw == details.warnings
            GridKinds == RangeKinds \cup CountKinds \cup {"frequency_mismatch"}
        IN  IF GridEvaluationCompletes
            THEN /\ VerdictRangeScore < 3 <=> HasKind(gw, RangeKinds)
                 /\ VerdictRangeScore < 3 => Lists(gw, ExpectedRangeWarning)
                 /\ VerdictCountScore < 3 <=> HasKind(gw, CountKinds)
                 /\ VerdictCountScore < 3 => Lists(gw, ExpectedCountWarning)
                 /\ MatchScore.v < 60 <=> HasKind(gw, {"frequency_mismatch"})
                 /\ details.total_score < 8 =>
                        \A i \in 1..Len(gw) : Lists(verdict.warnings, gw[i])
                 /\ details.total_score >= 8 => ~HasKind(verdict.warnings, GridKinds)
            ELSE /\ gw = << [kind |-> "evaluation_failed"] >>
                 /\ HasKind(verdict.warnings, {"evaluation_failed"})
                 /\ ~HasKind(verdict.warnings, GridKinds)

\* A range well below a proper band scores 1 while the count is in its band and
\* the frequency match is high: the total is 8, the evaluation lists the
\* "too small" warning and the verdict does not.
C12_Witness ==
    /\ Evaluated /\ ErrorFree /\ NumericParams
    /\ VerdictOptimalRange.min_range < VerdictOptimalRange.max_range
    /\ VerdictRangeScore = 1
    /\ verdict.grid_params_details.total_score = 8
    /\ Lists(verdict.grid_params_details.warnings, ExpectedRangeWarning)
    /\ ExpectedRangeWarning.kind = "range_too_small"
    /\ ~HasKind(verdict.warnings, RangeKinds)

\* C13: the recommended grid-count band does not depend on the amplitude: for
\* every non-zero mean amplitude base_count = floor(1.8 x target_triggers^2)
\* (target_triggers in tenths: 18 t^2 / 1000), and the band of the tier is
\* high [49, 52], medium [8, 16], low [3, 4].
C13_CountBandIgnoresAmplitude ==
    (AfterCount /\ user_frequency \in Tiers /\ GridAmplitude # 0) =>
        LET t == TargetTriggers(user_frequency)
        IN  /\ optimal_range.base_range = GridAmplitude * t * 180
            /\ optimal_grid_count.base_count = (18 * t * t) \div 1000
            /\ <<optimal_grid_count.min_count, optimal_grid_count.max_count>> =
                   CASE user_frequency = "high" -> <<49, 52>>
                     [] user_frequency = "medium" -> <<8, 16>>
                     [] user_frequency = "low" -> <<3, 4>>

\* At the smallest non-zero amplitude of the model, where the price band needed
\* its repair, the high tier gets base_count 54 and the band [49, 52].
C13_Witness ==
    /\ AfterCount
    /\ GridAmplitude = 1
    /\ user_frequency = "high"
    /\ optimal_range.min_range < RangeFloor
    /\ optimal_grid_count.base_count = 54
    /\ optimal_grid_count.min_count = 49
    /\ optimal_grid_count.max_count = 52

\* C14: every frequency string is evaluated consistently as one tier: there is
\* a tier in {high, medium, low} whose target trigger count, whose offsets and
\* caps of the grid-count band, and whose fallback band are the ones the
\* evaluation uses for that string.
C14_FrequencyEvaluatedAsOneTier ==
    AfterCount =>
        \E tier \in Tiers :
            LET t == TargetTriggers(tier)
                band == _calculate_optimal_grid_count(
                            tier, t, optimal_range.base_range, GridAmplitude)
                fallback == DefaultCountBand(user_frequency)
            IN  /\ TargetTriggers(user_frequency) = t
                /\ optimal_range = _calculate_optimal_price_range(GridAmplitude, t)
                /\ optimal_grid_count.base_count = band.base_count
                /\ optimal_grid_count.min_count = band.min_count
                /\ optimal_grid_count.max_count = band.max_count
                /\ fallback.min_count = DefaultCountBand(tier).min_count
                /\ fallback.max_count = DefaultCountBand(tier).max_count

====
